---- MODULE Spec2Model ----
(***************************************************************************)
(* A model of the fetal growth calculator: the estimation engine of        *)
(* src/model/logic.ts (normal CDF, forward interpolation, inverse lookup   *)
(* with extrapolation, weeks/days conversion) and the form handlers of     *)
(* src/components/Calculator.tsx that call it.                             *)
(*                                                                         *)
(* Numbers.  A JavaScript number is modelled as a record                   *)
(*   [k |-> "fin", n |-> numerator, d |-> denominator]  (an exact          *)
(*   rational in lowest terms, d > 0), or                                  *)
(*   [k |-> "inf", n |-> 1 or -1, d |-> 1]   (+Infinity, -Infinity), or    *)
(*   [k |-> "nan", n |-> 0, d |-> 1]         (NaN),                        *)
(* and JavaScript's null as [k |-> "null", n |-> 0, d |-> 1].  Arithmetic  *)
(* on finite values is exact; a division by zero and arithmetic on         *)
(* infinities follow IEEE 754.  Rounding error of binary floating point    *)
(* is not modelled.                                                        *)
(*                                                                         *)
(* Every record constructor lists its fields in the order of their first   *)
(* use in this module (by, fn, k, n, d, ...), the order in which TLC keeps *)
(* a record, so that no worker of TLC reorders a record another is reading.*)
(***************************************************************************)
EXTENDS Integers, Sequences, FiniteSets, TLC

VARIABLES
    referenceTable,     \* logic.ts:1     the imported table, a sequence of rows
    call,               \* the last engine call made: its function, arguments, result
    mode,               \* Calculator.tsx:10
    hcInput,            \* Calculator.tsx:13
    datingResult,       \* Calculator.tsx:14
    percWeeks,          \* Calculator.tsx:23
    percDays,           \* Calculator.tsx:24
    percHc,             \* Calculator.tsx:25
    percentileResult,   \* Calculator.tsx:26
    error               \* Calculator.tsx:28

vars == <<referenceTable, call, mode, hcInput, datingResult, percWeeks, percDays,
          percHc, percentileResult, error>>

uiVars == <<mode, hcInput, datingResult, percWeeks, percDays, percHc,
            percentileResult, error>>

-----------------------------------------------------------------------------
(* Bounds of the model.                                                    *)

\* The longest reference table drawn.
MaxRows == 3
\* Measurements are drawn from the grid 48, 52, ..., 4 * MaxHcStep.
MaxHcStep == 32
\* decimalWeeksToTime is applied to the values 0/28, 1/28, ..., MaxDecN/28.
MaxDecN == 56

-----------------------------------------------------------------------------
(* The variable call: [by |-> who called, fn |-> the engine function,      *)
(* its arguments by name, result |-> what it returned].                    *)

\* no engine call made
NoCall == [by |-> "none", fn |-> "none"]

-----------------------------------------------------------------------------
(* JavaScript numbers.                                                     *)

Abs(i) == IF i < 0 THEN -i ELSE i

Sign(i) == IF i < 0 THEN -1 ELSE IF i > 0 THEN 1 ELSE 0

RECURSIVE GCD(_, _)
GCD(a, b) == IF b = 0 THEN a ELSE GCD(b, a % b)

\* The rational num/den, den # 0, in lowest terms with a positive denominator.
Rat(num, den) ==
    LET g == GCD(Abs(num), Abs(den))
        s == IF den < 0 THEN -1 ELSE 1
    IN  [k |-> "fin", n |-> s * (num \div g), d |-> Abs(den) \div g]

Num(i) == [k |-> "fin", n |-> i, d |-> 1]

NaN == [k |-> "nan", n |-> 0, d |-> 1]

Infinity(s) == [k |-> "inf", n |-> s, d |-> 1]

Null == [k |-> "null", n |-> 0, d |-> 1]

IsFinite(a) == a.k = "fin"

Neg(a) == [a EXCEPT !.n = -a.n]

\* a + b
Add(a, b) ==
    IF a.k = "nan" \/ b.k = "nan" THEN NaN
    ELSE IF a.k = "inf" /\ b.k = "inf" THEN (IF a.n = b.n THEN a ELSE NaN)
    ELSE IF a.k = "inf" THEN a
    ELSE IF b.k = "inf" THEN b
    ELSE Rat(a.n * b.d + b.n * a.d, a.d * b.d)

\* a - b
Sub(a, b) == Add(a, Neg(b))

\* a * b
Mul(a, b) ==
    IF a.k = "nan" \/ b.k = "nan" THEN NaN
    ELSE IF a.k = "inf" \/ b.k = "inf"
         THEN (IF a.n = 0 \/ b.n = 0 THEN NaN ELSE Infinity(Sign(a.n) * Sign(b.n)))
    ELSE Rat(a.n * b.n, a.d * b.d)

\* a / b
Div(a, b) ==
    IF a.k = "nan" \/ b.k = "nan" THEN NaN
    ELSE IF a.k = "inf" THEN (IF b.k = "inf" THEN NaN
                              ELSE Infinity(a.n * (IF b.n < 0 THEN -1 ELSE 1)))
    ELSE IF b.k = "inf" THEN Num(0)
    ELSE IF b.n = 0 THEN (IF a.n = 0 THEN NaN ELSE Infinity(Sign(a.n)))
    ELSE Rat(a.n * b.d, a.d * b.n)

\* a < b; every comparison with NaN is false
Lt(a, b) ==
    IF a.k = "nan" \/ b.k = "nan" THEN FALSE
    ELSE IF a.k = "inf" THEN a.n = -1 /\ ~(b.k = "inf" /\ b.n = -1)
    ELSE IF b.k = "inf" THEN b.n = 1
    ELSE a.n * b.d < b.n * a.d

\* a === b on numbers
Eq(a, b) == a.k # "nan" /\ b.k # "nan" /\ a = b

Gt(a, b) == Lt(b, a)

Le(a, b) == Lt(a, b) \/ Eq(a, b)

Ge(a, b) == Le(b, a)

\* Number.isNaN / the global isNaN on a number
IsNaN(a) == a.k = "nan"

\* floor of the rational num/den, den > 0, as an integer
FloorDiv(num, den) == num \div den

\* Math.floor
Floor(a) == IF a.k = "fin" THEN Num(FloorDiv(a.n, a.d)) ELSE a

\* Math.round: the nearest integer, a tie going up
Round(a) == IF a.k = "fin" THEN Num(FloorDiv(2 * a.n + a.d, 2 * a.d)) ELSE a


-----------------------------------------------------------------------------
(* The reference table (referenceTable.json, imported at logic.ts:1).      *)

\* logic.ts:15-19  interface ReferenceRow
ReferenceRow(w, m, s) == [pregweek |-> Num(w), mu |-> Num(m), sd |-> Num(s)]

WeekVals == {14, 20, 27, 40}

MuVals == {80, 84, 100}

SdVals == {4, 6}

\* sorted ascending by week, no week twice
SortedByWeek(t) == \A i \in 1..(Len(t) - 1) : Lt(t[i].pregweek, t[i + 1].pregweek)

\* the mean never decreases from a row to the next
MeanNonDecreasing(t) == \A i \in 1..(Len(t) - 1) : Le(t[i].mu, t[i + 1].mu)

\* the mean strictly increases from a row to the next
MeanStrict(t) == \A i \in 1..(Len(t) - 1) : Lt(t[i].mu, t[i + 1].mu)

\* every standard deviation is positive
SdPositive(t) == \A i \in 1..Len(t) : Gt(t[i].sd, Num(0))

\* A table off the value sets: the mean rises by 6 while the sd rises by 2, so
\* that the three curves mean, mean + 2 sd and mean - 2 sd all rise strictly,
\* with three different slopes.
FannedTables == { <<ReferenceRow(14, 80, 4), ReferenceRow(20, 86, 6)>> }

\* The tables of 2..MaxRows rows over the value sets, sorted by week, the mean
\* never decreasing, every sd positive; and the fanned table.
Tables ==
    UNION { { t \in [1..n -> { ReferenceRow(w, m, s) : w \in WeekVals, m \in MuVals, s \in SdVals }] :
                SortedByWeek(t) /\ MeanNonDecreasing(t) /\ SdPositive(t) } : n \in 2..MaxRows }
    \cup FannedTables

-----------------------------------------------------------------------------
(* logic.ts: constants derived from the table.                             *)

\* logic.ts:6
minRow(t) == t[1]

\* logic.ts:7
maxRow(t) == t[Len(t)]

\* logic.ts:9
MIN_VALID_HC(t) == Sub(minRow(t).mu, Mul(Num(4), minRow(t).sd))

\* logic.ts:10
MAX_VALID_HC(t) == Add(maxRow(t).mu, Mul(Num(4), maxRow(t).sd))

-----------------------------------------------------------------------------
(* Array.prototype.sort with the comparator (a, b) => a[key] - b[key]:     *)
(* ascending by key, stable.                                               *)

\* s with the element e put before the first element whose key is not below e's
RECURSIVE InsertByKey(_, _, _)
InsertByKey(e, s, key) ==
    IF s = <<>> THEN <<e>>
    ELSE IF Lt(Head(s)[key], e[key]) THEN <<Head(s)>> \o InsertByKey(e, Tail(s), key)
    ELSE <<e>> \o s

RECURSIVE SortByKey(_, _)
SortByKey(s, key) ==
    IF s = <<>> THEN <<>>
    ELSE InsertByKey(Head(s), SortByKey(Tail(s), key), key)

SetMin(S) == CHOOSE i \in S : \A j \in S : i <= j

-----------------------------------------------------------------------------
(* logic.ts:55-85  interpolate                                             *)

\* interpolate with the boundary check of line 65 written with <= and >=: the
\* table's first and last x are out of range
interpolate_strictBounds(x, data, xKey, yKey) ==
    LET sorted == SortByKey(data, xKey)
        n == Len(sorted)
        found == { i \in 1..(n - 1) : Ge(x, sorted[i][xKey]) /\ Le(x, sorted[i + 1][xKey]) }
    IN  IF Le(x, sorted[1][xKey]) \/ Ge(x, sorted[n][xKey]) THEN Null
        ELSE IF found = {} THEN Null
        ELSE LET i == SetMin(found)
                 x0 == sorted[i][xKey]
                 x1 == sorted[i + 1][xKey]
                 y0 == sorted[i][yKey]
                 y1 == sorted[i + 1][yKey]
             IN  IF Eq(x1, x0) THEN y0
                 ELSE Add(y0, Mul(Sub(x, x0), Div(Sub(y1, y0), Sub(x1, x0))))

\* interpolate with the distance of line 81 measured from x1: (x1 - x) for (x - x0)
interpolate_fromX1(x, data, xKey, yKey) ==
    LET sorted == SortByKey(data, xKey)
        n == Len(sorted)
        found == { i \in 1..(n - 1) : Ge(x, sorted[i][xKey]) /\ Le(x, sorted[i + 1][xKey]) }
    IN  IF Lt(x, sorted[1][xKey]) \/ Gt(x, sorted[n][xKey]) THEN Null
        ELSE IF found = {} THEN Null
        ELSE LET i == SetMin(found)
                 x0 == sorted[i][xKey]
                 x1 == sorted[i + 1][xKey]
                 y0 == sorted[i][yKey]
                 y1 == sorted[i + 1][yKey]
             IN  IF Eq(x1, x0) THEN y0
                 ELSE Add(y0, Mul(Sub(x1, x), Div(Sub(y1, y0), Sub(x1, x0))))

interpolate(x, data, xKey, yKey) ==
    LET sorted == SortByKey(data, xKey)
        n == Len(sorted)
        \* the intervals the loop's condition accepts; the loop returns at the first
        found == { i \in 1..(n - 1) : Ge(x, sorted[i][xKey]) /\ Le(x, sorted[i + 1][xKey]) }
    IN  IF Lt(x, sorted[1][xKey]) \/ Gt(x, sorted[n][xKey]) THEN Null
        ELSE IF found = {} THEN Null
        ELSE LET i == SetMin(found)
                 x0 == sorted[i][xKey]
                 x1 == sorted[i + 1][xKey]
                 y0 == sorted[i][yKey]
                 y1 == sorted[i + 1][yKey]
             IN  IF Eq(x1, x0) THEN y0
                 ELSE Add(y0, Mul(Sub(x, x0), Div(Sub(y1, y0), Sub(x1, x0))))

-----------------------------------------------------------------------------
(* logic.ts:94-150  findWeekForMetric                                      *)

\* The three value extractors estimateGestationalAge passes (logic.ts:208, 227, 232).
Extractors == {"mu", "mu+2sd", "mu-2sd"}

valueExtractor(ex, row) ==
    IF ex = "mu" THEN row.mu
    ELSE IF ex = "mu+2sd" THEN Add(row.mu, Mul(Num(2), row.sd))
    ELSE Sub(row.mu, Mul(Num(2), row.sd))

\* logic.ts:100-105  the rows mapped to {week, val} and sorted by val
virtualData(t, ex) ==
    SortByKey([i \in 1..Len(t) |-> [week |-> t[i].pregweek, val |-> valueExtractor(ex, t[i])]],
              "val")

\* logic.ts:107
minVal(t, ex) == virtualData(t, ex)[1].val

\* logic.ts:108
maxVal(t, ex) == virtualData(t, ex)[Len(t)].val

\* logic.ts:116-122  the extrapolation below the minimum
extrapolateBelow(v, targetValue) ==
    LET x0 == v[1].val
        x1 == v[2].val
        y0 == v[1].week
        y1 == v[2].week
        m  == Div(Sub(y1, y0), Sub(x1, x0))
    IN  Add(y0, Mul(Sub(targetValue, x0), m))

\* extrapolateAbove projecting from y0, as the branch below the minimum does
extrapolateAbove_fromY0(v, targetValue) ==
    LET n  == Len(v)
        x0 == v[n - 1].val
        x1 == v[n].val
        y0 == v[n - 1].week
        y1 == v[n].week
        m  == Div(Sub(y1, y0), Sub(x1, x0))
    IN  Add(y0, Mul(Sub(targetValue, x1), m))

\* logic.ts:127-133  the extrapolation above the maximum
extrapolateAbove(v, targetValue) ==
    LET n  == Len(v)
        x0 == v[n - 1].val
        x1 == v[n].val
        y0 == v[n - 1].week
        y1 == v[n].week
        m  == Div(Sub(y1, y0), Sub(x1, x0))
    IN  Add(y1, Mul(Sub(targetValue, x1), m))

\* interpolateWithin with the slope of line 146 inverted: (x1 - x0) / (y1 - y0)
interpolateWithin_inverseSlope(v, targetValue) ==
    LET found == { i \in 1..(Len(v) - 1) :
                      Ge(targetValue, v[i].val) /\ Le(targetValue, v[i + 1].val) }
    IN  IF found = {} THEN Null
        ELSE LET i == SetMin(found)
                 x0 == v[i].val
                 x1 == v[i + 1].val
                 y0 == v[i].week
                 y1 == v[i + 1].week
             IN  IF Eq(x1, x0) THEN y0
                 ELSE Add(y0, Mul(Sub(targetValue, x0), Div(Sub(x1, x0), Sub(y1, y0))))

\* logic.ts:137-149  the interpolation within the range
interpolateWithin(v, targetValue) ==
    LET found == { i \in 1..(Len(v) - 1) :
                      Ge(targetValue, v[i].val) /\ Le(targetValue, v[i + 1].val) }
    IN  IF found = {} THEN Null
        ELSE LET i == SetMin(found)
                 x0 == v[i].val
                 x1 == v[i + 1].val
                 y0 == v[i].week
                 y1 == v[i + 1].week
             IN  IF Eq(x1, x0) THEN y0
                 ELSE Add(y0, Mul(Sub(targetValue, x0), Div(Sub(y1, y0), Sub(x1, x0))))

findWeekForMetric(t, targetValue, ex) ==
    LET v == virtualData(t, ex)
    IN  IF Lt(targetValue, v[1].val) THEN extrapolateBelow(v, targetValue)
        ELSE IF Gt(targetValue, v[Len(v)].val) THEN extrapolateAbove(v, targetValue)
        ELSE interpolateWithin(v, targetValue)

-----------------------------------------------------------------------------
(* logic.ts:155-166  decimalWeeksToTime                                    *)

Time(w, d) == [k |-> "time", weeks |-> w, days |-> d]

\* decimalWeeksToTime without the normalisation of lines 162-164
decimalWeeksToTime_noCarry(decimalWeeks) ==
    IF decimalWeeks.k = "null" THEN Null
    ELSE LET w == Floor(decimalWeeks)
             d == Round(Mul(Sub(decimalWeeks, w), Num(7)))
         IN  Time(w, d)

decimalWeeksToTime(decimalWeeks) ==
    IF decimalWeeks.k = "null" THEN Null
    ELSE LET w == Floor(decimalWeeks)
             d == Round(Mul(Sub(decimalWeeks, w), Num(7)))
         IN  IF Eq(d, Num(7)) THEN Time(Add(w, Num(1)), Num(0))
             ELSE Time(w, d)

-----------------------------------------------------------------------------
(* logic.ts:37-49  pnorm                                                   *)
(*                                                                         *)
(* The coefficients have seven decimals, and pnorm is evaluated in decimal *)
(* fixed point with seven decimals: a value v stands for v / 10^7, and a   *)
(* product or quotient is cut to seven decimals.  Every intermediate stays *)
(* below 2^31.  From |z| = 6 on the tail probability is below 10^-7 and is *)
(* 0 in seven decimals.                                                    *)

\* the fixed-point unit, 1.0000000
One == 10 ^ 7

\* floor(a * b / 10^7) for 0 <= a, b < 14 * 10^7, by halves of four digits
MulFix(a, b) ==
    LET ah == a \div 10000
        al == a % 10000
        bh == b \div 10000
        bl == b % 10000
        mid == ah * bl + al * bh
    IN  ah * bh * 10 + (mid \div 1000) + (((mid % 1000) * 10000 + al * bl) \div One)

\* the first digits decimals of r / b, 0 <= r < b, as an integer (long division)
RECURSIVE Decimals(_, _, _)
Decimals(r, b, digits) ==
    IF digits = 0 THEN 0
    ELSE ((r * 10) \div b) * (10 ^ (digits - 1)) + Decimals((r * 10) % b, b, digits - 1)

\* floor(a * 10^7 / b) for a >= 0, 0 < b < 2 * 10^8
DivFix(a, b) == (a \div b) * One + Decimals(a % b, b, 7)

\* the sum over k = i.. of (-x)^k / k!, given term = x^(i-1) / (i-1)!, up to k = 10
RECURSIVE ExpSeries(_, _, _)
ExpSeries(x, term, i) ==
    IF i > 10 THEN 0
    ELSE LET next == MulFix(term, x) \div i
         IN  (IF i % 2 = 1 THEN -next ELSE next) + ExpSeries(x, next, i + 1)

RECURSIVE Squared(_, _)
Squared(v, times) == IF times = 0 THEN v ELSE Squared(MulFix(v, v), times - 1)

\* Math.exp(-u) for a fixed-point u >= 0: exp(-u/64)^64, the inner exponential by
\* its power series; exactly 1 at u = 0, and 0 (below 10^-7) from u = 18 on
ExpNeg(u) ==
    IF u >= 18 * One THEN 0
    ELSE Squared(One + ExpSeries(u \div 64, One, 1), 6)

\* logic.ts:38-44  the tail probability p before line 47, in fixed point, for a
\* fixed-point |z| < 6
Tail7(az) ==
    LET t == DivFix(One, One + MulFix(2316419, az))
        d == MulFix(3989423, ExpNeg(MulFix(az, az) \div 2))
        poly == 3193815 + MulFix(t, -3565638 + MulFix(t, 17814780
                    + MulFix(t, -18212560 + MulFix(t, 13302740))))
    IN  MulFix(MulFix(d, t), poly)

\* |z| as a fixed-point value, for a finite z
AbsFix(z) == (Abs(z.n) \div z.d) * One + Decimals(Abs(z.n) % z.d, z.d, 7)

\* pnorm taking the complement from z >= 0 on, for z > 0 (line 47)
pnorm_complementAtZero(z) ==
    IF z.k = "nan" THEN NaN
    ELSE LET p == IF z.k = "inf" \/ Abs(z.n) >= 6 * z.d THEN 0 ELSE Tail7(AbsFix(z))
         IN  IF Ge(z, Num(0)) THEN Rat(One - p, One) ELSE Rat(p, One)

pnorm(z) ==
    IF z.k = "nan" THEN NaN
    ELSE LET p == IF z.k = "inf" \/ Abs(z.n) >= 6 * z.d THEN 0 ELSE Tail7(AbsFix(z))
         IN  IF Gt(z, Num(0)) THEN Rat(One - p, One) ELSE Rat(p, One)

-----------------------------------------------------------------------------
(* logic.ts:175-195  getHcPercentile                                       *)

\* getHcPercentile with Math.floor for Math.round (line 194)
getHcPercentile_floor(t, weeks, days, hc_mm) ==
    LET ga_weeks == Add(weeks, Div(days, Num(7)))
        mu_hat == interpolate(ga_weeks, t, "pregweek", "mu")
        sd_hat == interpolate(ga_weeks, t, "pregweek", "sd")
    IN  IF mu_hat.k = "null" \/ sd_hat.k = "null" THEN Null
        ELSE LET z == Div(Sub(hc_mm, mu_hat), sd_hat)
                 percentile == Mul(pnorm(z), Num(100))
             IN  Floor(percentile)

getHcPercentile(t, weeks, days, hc_mm) ==
    LET ga_weeks == Add(weeks, Div(days, Num(7)))
        mu_hat == interpolate(ga_weeks, t, "pregweek", "mu")
        sd_hat == interpolate(ga_weeks, t, "pregweek", "sd")
    IN  IF mu_hat.k = "null" \/ sd_hat.k = "null" THEN Null
        ELSE LET z == Div(Sub(hc_mm, mu_hat), sd_hat)
                 percentile == Mul(pnorm(z), Num(100))
             IN  Round(percentile)

-----------------------------------------------------------------------------
(* logic.ts:205-241  estimateGestationalAge                                *)

Tag(s) == [k |-> "tag", text |-> s]

\* estimateGestationalAge tagging from 40 weeks on: >= 40 for > 40 (line 213)
estimateGestationalAge_from40(t, hc_mm) ==
    LET exactWeekMean == findWeekForMetric(t, hc_mm, "mu")
        estimatedAgeResult ==
            IF exactWeekMean.k # "null"
            THEN (IF Ge(exactWeekMean, Num(40)) THEN Tag("More than 40 weeks")
                  ELSE IF Lt(exactWeekMean, Num(14)) THEN Tag("Less than 14 weeks")
                  ELSE decimalWeeksToTime(exactWeekMean))
            ELSE Null
        minWeek == findWeekForMetric(t, hc_mm, "mu+2sd")
        maxWeek == findWeekForMetric(t, hc_mm, "mu-2sd")
    IN  [estimatedAge |-> estimatedAgeResult,
         confidenceInterval |-> [min |-> decimalWeeksToTime(minWeek),
                                 max |-> decimalWeeksToTime(maxWeek)]]

estimateGestationalAge(t, hc_mm) ==
    LET exactWeekMean == findWeekForMetric(t, hc_mm, "mu")
        estimatedAgeResult ==
            IF exactWeekMean.k # "null"
            THEN (IF Gt(exactWeekMean, Num(40)) THEN Tag("More than 40 weeks")
                  ELSE IF Lt(exactWeekMean, Num(14)) THEN Tag("Less than 14 weeks")
                  ELSE decimalWeeksToTime(exactWeekMean))
            ELSE Null
        minWeek == findWeekForMetric(t, hc_mm, "mu+2sd")
        maxWeek == findWeekForMetric(t, hc_mm, "mu-2sd")
    IN  [estimatedAge |-> estimatedAgeResult,
         confidenceInterval |-> [min |-> decimalWeeksToTime(minWeek),
                                 max |-> decimalWeeksToTime(maxWeek)]]

-----------------------------------------------------------------------------
(* Strings: a JavaScript string is a sequence of one-character strings.    *)

Digits == {"0", "1", "2", "3", "4", "5", "6", "7", "8", "9"}

DigitVal(c) ==
    CASE c = "0" -> 0 [] c = "1" -> 1 [] c = "2" -> 2 [] c = "3" -> 3 [] c = "4" -> 4
      [] c = "5" -> 5 [] c = "6" -> 6 [] c = "7" -> 7 [] c = "8" -> 8 [] c = "9" -> 9

\* the leading white space dropped
RECURSIVE TrimStart(_)
TrimStart(s) == IF s # <<>> /\ Head(s) = " " THEN TrimStart(Tail(s)) ELSE s

\* the longest prefix of s made of digits
RECURSIVE DigitRun(_)
DigitRun(s) ==
    IF s = <<>> \/ Head(s) \notin Digits THEN <<>>
    ELSE <<Head(s)>> \o DigitRun(Tail(s))

\* the value of a run of digits, acc being the value of the digits before it
RECURSIVE DigitsValue(_, _)
DigitsValue(ds, acc) ==
    IF ds = <<>> THEN acc ELSE DigitsValue(Tail(ds), acc * 10 + DigitVal(Head(ds)))

IsPrefix(p, s) == Len(p) <= Len(s) /\ SubSeq(s, 1, Len(p)) = p

\* parseFloat: white space, a sign, then "Infinity" or digits with an optional
\* fraction; what follows is ignored; NaN when no number starts the string.
\* (Exponents are not modelled: no input string of the model has one.)
parseFloat(str) ==
    LET s0 == TrimStart(str)
        neg == s0 # <<>> /\ Head(s0) = "-"
        s1 == IF s0 # <<>> /\ Head(s0) \in {"-", "+"} THEN Tail(s0) ELSE s0
        ip == DigitRun(s1)
        r1 == SubSeq(s1, Len(ip) + 1, Len(s1))
        fp == IF r1 # <<>> /\ Head(r1) = "." THEN DigitRun(Tail(r1)) ELSE <<>>
        mag == Rat(DigitsValue(ip \o fp, 0), 10 ^ Len(fp))
    IN  IF IsPrefix(<<"I", "n", "f", "i", "n", "i", "t", "y">>, s1)
        THEN Infinity(IF neg THEN -1 ELSE 1)
        ELSE IF ip = <<>> /\ fp = <<>> THEN NaN
        ELSE IF neg THEN Neg(mag) ELSE mag

\* parseInt: white space, a sign, then digits; what follows is ignored; NaN when
\* no digit starts the string
parseInt(str) ==
    LET s0 == TrimStart(str)
        neg == s0 # <<>> /\ Head(s0) = "-"
        s1 == IF s0 # <<>> /\ Head(s0) \in {"-", "+"} THEN Tail(s0) ELSE s0
        ip == DigitRun(s1)
    IN  IF ip = <<>> THEN NaN
        ELSE Num((IF neg THEN -1 ELSE 1) * DigitsValue(ip, 0))

\* Number.prototype.toFixed(1), as the number the digits written stand for
toFixed1(a) == Div(Round(Mul(a, Num(10))), Num(10))

\* a || 0 on a number: 0 for NaN and for 0
OrZero(a) == IF a.k = "nan" \/ (a.k = "fin" /\ a.n = 0) THEN Num(0) ELSE a

-----------------------------------------------------------------------------
(* The arrays a call leaves behind.  A JavaScript array is an object:      *)
(* `[...a]` and `a.map(f)` build a new array and leave a as it is, while   *)
(* `a.sort(cmp)` reorders the array it is called on and returns that same  *)
(* array.  Each operator below gives the pair                              *)
(*   <<the array the statement started from, as the statement leaves it,   *)
(*     the array the statement assigns>>.                                  *)

\* logic.ts:61  const sorted = [...data].sort((a, b) => a[xKey] - b[xKey]):
\* the spread builds a new array of data's rows and the sort reorders that one
interpolate_arrays(data, xKey) ==
    LET spread == data
    IN  <<data, SortByKey(spread, xKey)>>

\* used by findWeekForMetric_arrays_inPlace: the rows of t in ascending order of
\* the extracted value, stable
SortByExtractor(t, ex) ==
    LET keyed == [i \in 1..Len(t) |->
                     [pregweek |-> t[i].pregweek, mu |-> t[i].mu, sd |-> t[i].sd,
                      val |-> valueExtractor(ex, t[i])]]
        byVal == SortByKey(keyed, "val")
    IN  [i \in 1..Len(t) |->
            [pregweek |-> byVal[i].pregweek, mu |-> byVal[i].mu, sd |-> byVal[i].sd]]

\* `referenceTable.sort(...).map(...)` for lines 100-105's
\* `referenceTable.map(...).sort(...)`: the sort reorders the table itself
findWeekForMetric_arrays_inPlace(t, ex) ==
    <<SortByExtractor(t, ex), virtualData(t, ex)>>

\* logic.ts:100-105  const virtualData = referenceTable.map(...).sort(...):
\* map builds a new array of {week, val} objects and the sort reorders that one
findWeekForMetric_arrays(t, ex) ==
    LET mapped == [i \in 1..Len(t) |->
                      [week |-> t[i].pregweek, val |-> valueExtractor(ex, t[i])]]
    IN  <<t, SortByKey(mapped, "val")>>

\* logic.ts:180-181  the table after getHcPercentile's two calls of interpolate
getHcPercentile_table(t) ==
    LET afterMu == interpolate_arrays(t, "pregweek")[1]
    IN  interpolate_arrays(afterMu, "pregweek")[1]

\* logic.ts:208, 227, 232  the table after estimateGestationalAge's three calls
\* of findWeekForMetric
estimateGestationalAge_table(t) ==
    LET afterMean == findWeekForMetric_arrays(t, "mu")[1]
        afterMin  == findWeekForMetric_arrays(afterMean, "mu+2sd")[1]
    IN  findWeekForMetric_arrays(afterMin, "mu-2sd")[1]

-----------------------------------------------------------------------------
(* The engine call a step makes, with the engine's answer.                 *)

CallEstimate(by, t, hc_mm) ==
    [by |-> by, fn |-> "estimateGestationalAge", hc_mm |-> hc_mm,
     result |-> estimateGestationalAge(t, hc_mm)]

CallPercentile(by, t, weeks, days, hc_mm) ==
    [by |-> by, fn |-> "getHcPercentile", weeks |-> weeks, days |-> days, hc_mm |-> hc_mm,
     result |-> getHcPercentile(t, weeks, days, hc_mm)]

-----------------------------------------------------------------------------
(* Calculator.tsx: the form.                                               *)

Str(s) == [k |-> "str", text |-> s]

ErrorWith(s, a) == [k |-> "str", text |-> s, value |-> a]

\* Calculator.tsx:10-28  the state after the first render
InitForm ==
    /\ mode = "percentile"
    /\ hcInput = <<>>
    /\ datingResult = Null
    /\ percWeeks = <<>>
    /\ percDays = <<>>
    /\ percHc = <<>>
    /\ percentileResult = Null
    /\ error = Null

\* Calculator.tsx:38-46
handleModeChange(newMode) ==
    /\ mode' = newMode
    /\ error' = Null
    /\ datingResult' = Null
    /\ percentileResult' = Null
    /\ hcInput' = <<>>
    /\ percWeeks' = <<>>
    /\ percDays' = <<>>
    /\ percHc' = <<>>
    /\ call' = NoCall
    /\ UNCHANGED referenceTable

\* Calculator.tsx:224  onChange of the measurement field of the dating form
setHcInput(s) ==
    /\ mode = "dating"
    /\ hcInput' = s
    /\ call' = NoCall
    /\ UNCHANGED <<referenceTable, mode, datingResult, percWeeks, percDays, percHc,
                   percentileResult, error>>

\* Calculator.tsx:178
setPercWeeks(s) ==
    /\ mode = "percentile"
    /\ percWeeks' = s
    /\ call' = NoCall
    /\ UNCHANGED <<referenceTable, mode, hcInput, datingResult, percDays, percHc,
                   percentileResult, error>>

\* Calculator.tsx:189
setPercDays(s) ==
    /\ mode = "percentile"
    /\ percDays' = s
    /\ call' = NoCall
    /\ UNCHANGED <<referenceTable, mode, hcInput, datingResult, percWeeks, percHc,
                   percentileResult, error>>

\* Calculator.tsx:201
setPercHc(s) ==
    /\ mode = "percentile"
    /\ percHc' = s
    /\ call' = NoCall
    /\ UNCHANGED <<referenceTable, mode, hcInput, datingResult, percWeeks, percDays,
                   percentileResult, error>>

\* calculateDating without the check against MAX_VALID_HC of lines 61-64
calculateDating_noUpperCheck ==
    /\ mode = "dating"
    /\ LET val == parseFloat(hcInput)
           estimation == CallEstimate("calculateDating", referenceTable, val)
       IN  /\ percentileResult' = Null
           /\ IF IsNaN(val)
              THEN /\ error' = Str("Please enter a numeric value")
                   /\ datingResult' = Null
                   /\ call' = [NoCall EXCEPT !.by = "calculateDating"]
                   /\ UNCHANGED referenceTable
              ELSE IF Lt(val, MIN_VALID_HC(referenceTable))
              THEN /\ error' = ErrorWith("Measurement value must be at least",
                                         toFixed1(MIN_VALID_HC(referenceTable)))
                   /\ datingResult' = Null
                   /\ call' = [NoCall EXCEPT !.by = "calculateDating"]
                   /\ UNCHANGED referenceTable
              ELSE /\ call' = estimation
                   /\ referenceTable' = estimateGestationalAge_table(referenceTable)
                   /\ IF estimation.result.estimatedAge.k = "null"
                      THEN /\ error' = Str("Measurement value out of range (Week 14-40)")
                           /\ datingResult' = Null
                      ELSE /\ error' = Null
                           /\ datingResult' = [k |-> "dating",
                                               age |-> estimation.result.estimatedAge,
                                               range |-> estimation.result.confidenceInterval]
    /\ UNCHANGED <<mode, hcInput, percWeeks, percDays, percHc>>

\* Calculator.tsx:48-77
calculateDating ==
    /\ mode = "dating"
    /\ LET val == parseFloat(hcInput)
           estimation == CallEstimate("calculateDating", referenceTable, val)
       IN  /\ percentileResult' = Null
           /\ IF IsNaN(val)
              THEN /\ error' = Str("Please enter a numeric value")
                   /\ datingResult' = Null
                   /\ call' = [NoCall EXCEPT !.by = "calculateDating"]
                   /\ UNCHANGED referenceTable
              ELSE IF Lt(val, MIN_VALID_HC(referenceTable))
              THEN /\ error' = ErrorWith("Measurement value must be at least",
                                         toFixed1(MIN_VALID_HC(referenceTable)))
                   /\ datingResult' = Null
                   /\ call' = [NoCall EXCEPT !.by = "calculateDating"]
                   /\ UNCHANGED referenceTable
              ELSE IF Gt(val, MAX_VALID_HC(referenceTable))
              THEN /\ error' = ErrorWith("Measurement value must be at most",
                                         toFixed1(MAX_VALID_HC(referenceTable)))
                   /\ datingResult' = Null
                   /\ call' = [NoCall EXCEPT !.by = "calculateDating"]
                   /\ UNCHANGED referenceTable
              ELSE /\ call' = estimation
                   /\ referenceTable' = estimateGestationalAge_table(referenceTable)
                   /\ IF estimation.result.estimatedAge.k = "null"
                      THEN /\ error' = Str("Measurement value out of range (Week 14-40)")
                           /\ datingResult' = Null
                      ELSE /\ error' = Null
                           /\ datingResult' = [k |-> "dating",
                                               age |-> estimation.result.estimatedAge,
                                               range |-> estimation.result.confidenceInterval]
    /\ UNCHANGED <<mode, hcInput, percWeeks, percDays, percHc>>

\* Calculator.tsx:79-114
calculatePercentile ==
    /\ mode = "percentile"
    /\ LET w == parseInt(percWeeks)
           d == OrZero(parseInt(percDays))
           h == parseFloat(percHc)
           made == CallPercentile("calculatePercentile", referenceTable, w, d, h)
           reject(e) == /\ error' = e
                        /\ percentileResult' = Null
                        /\ call' = [NoCall EXCEPT !.by = "calculatePercentile"]
                        /\ UNCHANGED referenceTable
       IN  /\ datingResult' = Null
           /\ IF IsNaN(w) \/ IsNaN(h)
              THEN reject(Str("Please enter week and head circumference"))
              ELSE IF Lt(w, Num(14)) \/ Gt(w, Num(40))
              THEN reject(Str("Week must be between 14-40"))
              ELSE IF Lt(d, Num(0)) \/ Gt(d, Num(6))
              THEN reject(Str("Days must be between 0-6"))
              ELSE IF Lt(h, MIN_VALID_HC(referenceTable))
              THEN reject(ErrorWith("Measurement value must be at least",
                                    toFixed1(MIN_VALID_HC(referenceTable))))
              ELSE IF Gt(h, MAX_VALID_HC(referenceTable))
              THEN reject(ErrorWith("Measurement value must be at most",
                                    toFixed1(MAX_VALID_HC(referenceTable))))
              ELSE /\ call' = made
                   /\ referenceTable' = getHcPercentile_table(referenceTable)
                   /\ IF made.result.k = "null"
                      THEN /\ error' = Str("Cannot calculate percentile (Data missing for input)")
                           /\ percentileResult' = Null
                      ELSE /\ error' = Null
                           /\ percentileResult' = made.result
    /\ UNCHANGED <<mode, hcInput, percWeeks, percDays, percHc>>

-----------------------------------------------------------------------------
(* The tables the calculator is shipped with: weeks 14 to 40 (logic.ts:4-5,*)
(* 184), the mean strictly increasing, and each of the three curves the    *)
(* inverse lookup reads strictly increasing with the week.                 *)

\* the curve of extractor ex strictly increases from a row to the next
CurveStrict(t, ex) ==
    \A i \in 1..(Len(t) - 1) : Lt(valueExtractor(ex, t[i]), valueExtractor(ex, t[i + 1]))

CurvesStrict(t) == \A ex \in Extractors : CurveStrict(t, ex)

ProgramTable(t) ==
    /\ minRow(t).pregweek = Num(14)
    /\ maxRow(t).pregweek = Num(40)
    /\ MeanStrict(t)
    /\ CurvesStrict(t)

ProgramTables == { t \in Tables : ProgramTable(t) }

-----------------------------------------------------------------------------
(* The form: input strings, and the specification of the form handlers.    *)

HcStrings ==
    { <<>>, <<"a", "b", "c">>, <<"6", "0">>, <<"6", "4">>, <<"9", "0", ".", "5">>,
      <<"1", "1", "6">>, <<"1", "2", "0">>, <<"9", "x">>,
      <<"I", "n", "f", "i", "n", "i", "t", "y">> }

WeekStrings == { <<>>, <<"1", "3">>, <<"1", "4">>, <<"4", "0">>, <<"4", "1">> }

DayStrings == { <<>>, <<"6">>, <<"7">>, <<"-", "1">> }

Init ==
    /\ referenceTable \in ProgramTables
    /\ call = NoCall
    /\ InitForm

Next ==
    \/ \E newMode \in {"dating", "percentile"} : handleModeChange(newMode)
    \/ \E s \in HcStrings : setHcInput(s)
    \/ \E s \in WeekStrings : setPercWeeks(s)
    \/ \E s \in DayStrings : setPercDays(s)
    \/ \E s \in HcStrings : setPercHc(s)
    \/ calculateDating
    \/ calculatePercentile

Spec == Init /\ [][Next]_vars

-----------------------------------------------------------------------------
(* The engine: its functions applied to inputs drawn from bounded sets,    *)
(* over every table of Tables.  The engine is synchronous: one call at a   *)
(* time, the next one made after the last has returned.                    *)

\* measurements: the multiples of 4 from 48 to 4 * MaxHcStep, and two values
\* off the grid
HcVals == { Num(4 * i) : i \in 12..MaxHcStep } \cup { Num(82), Rat(181, 2) }

\* z-scores: the halves from -4 to 4, and -6, 6 and 7
ZVals == { Rat(i, 2) : i \in -8..8 } \cup { Num(-6), Num(6), Num(7) }

\* gestational ages
AgeWeeks == { Num(13), Num(14), Num(20), Num(27), Num(39), Num(40), Num(41) }

AgeDays == { Num(0), Num(3), Num(6) }

\* decimal weeks: the multiples of 1/28 up to MaxDecN / 28, and null
DecVals == { Rat(i, 28) : i \in 0..MaxDecN } \cup { Rat(559, 28), Null }

CallPnorm(z) ==
    /\ call = NoCall
    /\ call' = [by |-> "direct", fn |-> "pnorm", z |-> z, result |-> pnorm(z)]
    /\ UNCHANGED <<referenceTable, uiVars>>

CallInterpolate(x, yKey) ==
    /\ call = NoCall
    /\ call' = [by |-> "direct", fn |-> "interpolate", x |-> x, yKey |-> yKey,
                result |-> interpolate(x, referenceTable, "pregweek", yKey)]
    /\ referenceTable' = interpolate_arrays(referenceTable, "pregweek")[1]
    /\ UNCHANGED uiVars

CallFindWeekForMetric(targetValue, ex) ==
    /\ call = NoCall
    /\ call' = [by |-> "direct", fn |-> "findWeekForMetric", ex |-> ex,
                targetValue |-> targetValue, result |-> findWeekForMetric(referenceTable, targetValue, ex)]
    /\ referenceTable' = findWeekForMetric_arrays(referenceTable, ex)[1]
    /\ UNCHANGED uiVars

CallDecimalWeeksToTime(x) ==
    /\ call = NoCall
    /\ call' = [by |-> "direct", fn |-> "decimalWeeksToTime", decimalWeeks |-> x,
                result |-> decimalWeeksToTime(x)]
    /\ UNCHANGED <<referenceTable, uiVars>>

CallGetHcPercentile(weeks, days, hc_mm) ==
    /\ call = NoCall
    /\ call' = CallPercentile("direct", referenceTable, weeks, days, hc_mm)
    /\ referenceTable' = getHcPercentile_table(referenceTable)
    /\ UNCHANGED uiVars

CallEstimateGestationalAge(hc_mm) ==
    /\ call = NoCall
    /\ call' = CallEstimate("direct", referenceTable, hc_mm)
    /\ referenceTable' = estimateGestationalAge_table(referenceTable)
    /\ UNCHANGED uiVars

\* the call returns, and the engine is idle again
Return ==
    /\ call # NoCall
    /\ call' = NoCall
    /\ UNCHANGED <<referenceTable, uiVars>>

\* the measurements getHcPercentile is called with at an age: three fixed ones and
\* the interpolated mean at that age, when there is one
HcAtAge(weeks, days) ==
    LET m == interpolate(Add(weeks, Div(days, Num(7))), referenceTable, "pregweek", "mu")
    IN  { Num(60), Num(90), Num(118) } \cup (IF m.k = "null" THEN {} ELSE {m})

InitEngine ==
    /\ referenceTable \in Tables
    /\ call = NoCall
    /\ InitForm

NextEngine ==
    \/ \E z \in ZVals : CallPnorm(z)
    \/ \E w \in AgeWeeks, d \in AgeDays, yKey \in {"mu", "sd"} :
          CallInterpolate(Add(w, Div(d, Num(7))), yKey)
    \/ \E h \in HcVals, ex \in Extractors : CallFindWeekForMetric(h, ex)
    \/ \E x \in DecVals : CallDecimalWeeksToTime(x)
    \/ \E w \in AgeWeeks, d \in AgeDays : \E h \in HcAtAge(w, d) : CallGetHcPercentile(w, d, h)
    \/ \E h \in HcVals : CallEstimateGestationalAge(h)
    \/ Return

EngineSpec == InitEngine /\ [][NextEngine]_vars

-----------------------------------------------------------------------------
(* Properties.                                                             *)

\* the decimal age weeks + days/7
DecimalAge(weeks, days) == Add(weeks, Div(days, Num(7)))

\* the table's smallest and largest week
SmallestWeek(t) == CHOOSE w \in { t[i].pregweek : i \in 1..Len(t) } :
                       \A i \in 1..Len(t) : Le(w, t[i].pregweek)

LargestWeek(t) == CHOOSE w \in { t[i].pregweek : i \in 1..Len(t) } :
                      \A i \in 1..Len(t) : Ge(w, t[i].pregweek)

IsInteger(a) == a.k = "fin" /\ a.d = 1

\* C1: findWeekForMetric returns a finite week, never an absent result, for every
\* finite target, every table of at least two rows with the data invariant
\* (sorted by week, mean strictly monotonic, sd > 0) and each of the three
\* extractors, the target lying below, inside or above the extracted values.
C1_FindWeekAlwaysFinite ==
    (/\ call.fn = "findWeekForMetric"
     /\ SortedByWeek(referenceTable) /\ MeanStrict(referenceTable) /\ SdPositive(referenceTable)
     /\ IsFinite(call.targetValue))
    => IsFinite(call.result)

\* C2: getHcPercentile returns null exactly when the decimal age weeks + days/7 is
\* below the table's smallest week or above its largest week, and an integer for
\* every age inside [minWeek, maxWeek], the endpoints included.
C2_PercentileAbsentIffOutside ==
    call.fn = "getHcPercentile" =>
        LET age == DecimalAge(call.weeks, call.days)
            outside == Lt(age, SmallestWeek(referenceTable)) \/ Gt(age, LargestWeek(referenceTable))
        IN  /\ (call.result = Null) <=> outside
            /\ ~outside => IsInteger(call.result)

\* C2 witness: a call at the largest week itself, answered with an integer.
C2_Witness ==
    /\ call.fn = "getHcPercentile"
    /\ DecimalAge(call.weeks, call.days) = LargestWeek(referenceTable)
    /\ IsInteger(call.result)

\* C3: for every row of the table with its week w inside [14, 40] and its mean m,
\* findWeekForMetric(m, mean extractor) is w.
C3_RoundTrip ==
    (call.fn = "findWeekForMetric" /\ call.ex = "mu" /\ MeanStrict(referenceTable)) =>
        \A i \in 1..Len(referenceTable) :
            (/\ referenceTable[i].mu = call.targetValue
             /\ Ge(referenceTable[i].pregweek, Num(14))
             /\ Le(referenceTable[i].pregweek, Num(40)))
            => call.result = referenceTable[i].pregweek

\* C3 witness: the mean of the middle row of a three-row table is looked up, and
\* the middle row's week comes back.
C3_Witness ==
    /\ call.fn = "findWeekForMetric" /\ call.ex = "mu"
    /\ Len(referenceTable) = 3 /\ MeanStrict(referenceTable)
    /\ call.targetValue = referenceTable[2].mu
    /\ call.result = referenceTable[2].pregweek

IsNumericTime(a) == a.k = "time" /\ IsFinite(a.weeks) /\ IsFinite(a.days)

C6_WeeksDays ==
    call.fn = "decimalWeeksToTime" =>
        LET x == call.decimalWeeks
            r == call.result
        IN  /\ x = Null => r = Null
            /\ (IsFinite(x) /\ x.n >= 0) =>
                  LET fl == x.n \div x.d
                      \* (x - floor(x)) * 7 as the fraction fn / x.d
                      fn == 7 * (x.n - fl * x.d)
                      rd == CHOOSE i \in 0..7 : 2 * i * x.d <= 2 * fn + x.d
                                                /\ 2 * fn + x.d < 2 * (i + 1) * x.d
                      total == 7 * r.weeks.n + r.days.n
                  IN  /\ r.k = "time" /\ IsInteger(r.weeks) /\ IsInteger(r.days)
                      /\ r.days.n \in 0..6
                      /\ IF rd = 7 THEN r.weeks.n = fl + 1 /\ r.days.n = 0
                                   ELSE r.weeks.n = fl /\ r.days.n = rd
                      \* total is the whole number of days nearest to 7 * x
                      /\ 2 * total * x.d <= 14 * x.n + x.d
                      /\ 14 * x.n + x.d < 2 * (total + 1) * x.d

\* C6 witness: 27/28 of a week is 6.75 days, which rounds to 7 days and is
\* returned as 1 week and 0 days.
C6_Witness ==
    /\ call.fn = "decimalWeeksToTime"
    /\ call.decimalWeeks = Rat(27, 28)
    /\ call.result = Time(Num(1), Num(0))

\* C7, as claimed: pnorm(0) is exactly 0.5.
C7_CdfZeroIsHalf ==
    (call.fn = "pnorm" /\ call.z = Num(0)) => call.result = Rat(1, 2)

\* C7, amended: pnorm(0) is 0.3989423 * 1.2533137 = 0.49999985..., which is
\* 0.4999998 cut to seven decimals: 0.5 within 2 * 10^-7, and not 0.5.
C7_CdfZeroNearHalf ==
    (call.fn = "pnorm" /\ call.z = Num(0)) =>
        call.result = Rat(4999998, One)

\* C7 witness: pnorm has been applied to 0.
C7_Witness == call.fn = "pnorm" /\ call.z = Num(0) /\ IsFinite(call.result)

\* C8: getHcPercentile with a measurement equal to the interpolated mean at an age
\* inside the table domain returns 50.
C8_PercentileAtMeanIs50 ==
    call.fn = "getHcPercentile" =>
        LET m == interpolate(DecimalAge(call.weeks, call.days), referenceTable, "pregweek", "mu")
        IN  (m # Null /\ call.hc_mm = m) => call.result = Num(50)

\* C8 witness: a call three days into a week, between two rows, with the measurement
\* at the interpolated mean, answered 50.
C8_Witness ==
    /\ call.fn = "getHcPercentile" /\ call.days = Num(3)
    /\ call.hc_mm = interpolate(DecimalAge(call.weeks, call.days), referenceTable, "pregweek", "mu")
    /\ call.result = Num(50)

\* the ages interpolate is applied to
Ages == { DecimalAge(w, d) : w \in AgeWeeks, d \in AgeDays }

\* C9: over a table sorted by week with a non-decreasing mean, for two ages
\* a1 < a2 inside [minWeek, maxWeek], the interpolated mean at a1 is at most the
\* interpolated mean at a2, also across table intervals and on row boundaries.
C9_InterpolationMonotone ==
    (call.fn = "interpolate" /\ call.yKey = "mu" /\ call.result # Null) =>
        \A a2 \in Ages :
            (/\ Lt(call.x, a2)
             /\ Le(a2, LargestWeek(referenceTable)))
            => Le(call.result, interpolate(a2, referenceTable, "pregweek", "mu"))

\* C9 witness: in a three-row table with a growing mean, an age inside the first
\* interval has a smaller interpolated mean than an age inside the second.
C9_Witness ==
    /\ call.fn = "interpolate" /\ call.yKey = "mu" /\ Len(referenceTable) = 3
    /\ Lt(referenceTable[1].pregweek, call.x) /\ Lt(call.x, referenceTable[2].pregweek)
    /\ \E a2 \in Ages :
          /\ Lt(referenceTable[2].pregweek, a2) /\ Lt(a2, referenceTable[3].pregweek)
          /\ Lt(call.result, interpolate(a2, referenceTable, "pregweek", "mu"))

\* a measurement the form must reject: not a number, or outside
\* [MIN_VALID_HC, MAX_VALID_HC]
Invalid(val) ==
    \/ ~IsFinite(val)
    \/ Lt(val, MIN_VALID_HC(referenceTable))
    \/ Gt(val, MAX_VALID_HC(referenceTable))

\* C10: the form handlers call the engine only with a numeric measurement inside
\* [MIN_VALID_HC, MAX_VALID_HC]; on a non-numeric or out-of-bounds measurement the
\* handler sets an error and makes no engine call.
C10_PreValidationGate ==
    /\ call.fn \in {"estimateGestationalAge", "getHcPercentile"} =>
          /\ ~Invalid(call.hc_mm)
          /\ call.hc_mm = (IF call.fn = "estimateGestationalAge"
                           THEN parseFloat(hcInput) ELSE parseFloat(percHc))
    /\ (call.by = "calculateDating" /\ Invalid(parseFloat(hcInput))) =>
          error # Null /\ call.fn = "none" /\ datingResult = Null
    /\ (call.by = "calculatePercentile" /\ Invalid(parseFloat(percHc))) =>
          error # Null /\ call.fn = "none" /\ percentileResult = Null

\* C10 witness: calculateDating has run on a measurement above MAX_VALID_HC, set an
\* error and made no engine call.
C10_Witness ==
    /\ call.by = "calculateDating" /\ call.fn = "none"
    /\ Gt(parseFloat(hcInput), MAX_VALID_HC(referenceTable))
    /\ error # Null
\* C11: the reference table is never mutated.  Every step leaves the table with
\* the rows it had, in the order it had them (the sorts of interpolate and
\* findWeekForMetric reorder copies), so after any sequence of calls the table
\* is the one that was loaded; and the answer a call of getHcPercentile or
\* estimateGestationalAge gave is the answer the same arguments get on the
\* table the call leaves behind: it depends on the arguments alone, not on
\* the calls made before.
C11_TableNeverMutated ==
    [][ /\ referenceTable' = referenceTable
        /\ call'.fn = "getHcPercentile" =>
               call'.result = getHcPercentile(referenceTable', call'.weeks, call'.days,
                                              call'.hc_mm)
        /\ call'.fn = "estimateGestationalAge" =>
               call'.result = estimateGestationalAge(referenceTable', call'.hc_mm)
      ]_vars

\* estimateGestationalAge has been called on a table of three rows whose
\* mean - 2 sd curve is not in the order of the weeks: the sort of
\* findWeekForMetric moved rows in its copy, and the table is still in the
\* order of the weeks.
C11_Witness ==
    /\ call.fn = "estimateGestationalAge"
    /\ Len(referenceTable) = 3
    /\ SortedByWeek(referenceTable)
    /\ findWeekForMetric_arrays(referenceTable, "mu-2sd")[2][1].week
           # referenceTable[1].pregweek

\* C12: for every table with the data invariant and every measurement in
\* [MIN_VALID_HC, MAX_VALID_HC], the week estimateGestationalAge computes on
\* mean + 2 sd is at most the week it computes on the mean, which is at most the
\* week it computes on mean - 2 sd.
C12_IntervalOrdered ==
    (/\ call.fn = "estimateGestationalAge"
     /\ SortedByWeek(referenceTable) /\ MeanStrict(referenceTable) /\ SdPositive(referenceTable)
     /\ Ge(call.hc_mm, MIN_VALID_HC(referenceTable))
     /\ Le(call.hc_mm, MAX_VALID_HC(referenceTable)))
    => LET minWeek       == findWeekForMetric(referenceTable, call.hc_mm, "mu+2sd")
           exactWeekMean == findWeekForMetric(referenceTable, call.hc_mm, "mu")
           maxWeek       == findWeekForMetric(referenceTable, call.hc_mm, "mu-2sd")
       IN  Le(minWeek, exactWeekMean) /\ Le(exactWeekMean, maxWeek)

=============================================================================
